---- MODULE Spec2Model ----
(***************************************************************************)
(* F&O News & Mutual Fund Source Tracker: the normalize / dedupe / detect  *)
(* pipeline of util.py and the Streamlit script app.py that drives it.     *)
(*                                                                         *)
(* Python values.  A str is a sequence of code points.  None is the        *)
(* one-element sequence <<-1>>, which is no str because -1 is no code      *)
(* point.  A dict is a function whose DOMAIN is its set of keys.  A list   *)
(* is a sequence.                                                          *)
(***************************************************************************)
EXTENDS Integers, Sequences, FiniteSets, TLC

VARIABLES
    \* ---- app.py: one Streamlit session, the script re-run per interaction
    session_state,  \* st.session_state: a dict with keys among "fetch", "df"
    pc,             \* position of the running code ("idle" between runs)
    button,         \* st.sidebar.button(...) of the current run
    newsapi_key,    \* the sidebar's NewsAPI key (a str, "" when not given)
    mf_list,        \* the sidebar's firm list; also the detector's input
    n_articles,     \* app.py local n_articles
    g_articles,     \* app.py local g_articles
    all_articles,   \* app.py local all_articles
    combined,       \* app.py local combined
    reports,        \* per source, the st.success or st.error of this run
    view,           \* what the display block of this run did
    clicked,        \* history: the button was clicked at least once
    \* ---- util.py functions applied to drawn inputs
    a,              \* normalize_article's argument a
    source,         \* normalize_article's argument source
    utcnow,         \* what datetime.utcnow().isoformat() returns
    out,            \* normalize_article(a, source)
    again,          \* normalize_article(out, out["source"]), as dedupe does
    a2,             \* a second raw record
    source2,        \* its default source label
    out2,           \* normalize_article(a2, source2)
    articles,       \* dedupe_articles' argument
    result,         \* dedupe_articles(articles)
    article,        \* detect_mutual_fund_mentions' argument article
    found           \* detect_mutual_fund_mentions(article, mf_list)

appState == <<session_state, button, newsapi_key, n_articles, g_articles,
              all_articles, combined, reports, view, clicked>>
normVars == <<a, source, utcnow, out, again, a2, source2, out2>>
dedupeVars == <<articles, result>>
detectVars == <<article, found>>
vars == <<pc, appState, mf_list, normVars, dedupeVars, detectVars>>

-----------------------------------------------------------------------------
(* Python values *)

None == <<-1>>
Pending == <<-2>>      \* a model variable not yet assigned by the code
Absent == <<-3>>       \* used only to enumerate dicts: the key is not there

Truthy(v) == v # None /\ v # <<>>
IsStr(v) == v # None

\* x or y
Or(x, y) == IF Truthy(x) THEN x ELSE y

\* d.get(k)
Get(d, k) == IF k \in DOMAIN d THEN d[k] ELSE None

\* d.get(k, default)
GetDefault(d, k, default) == IF k \in DOMAIN d THEN d[k] ELSE default

\* the dict holding the entries of f whose value is not Absent
Dict(f) == [k \in {x \in DOMAIN f : f[x] # Absent} |-> f[k]]

Range(s) == {s[i] : i \in DOMAIN s}

\* s[:n]
Slice(s, n) == IF Len(s) <= n THEN s ELSE SubSeq(s, 1, n)

\* str.lower() on ASCII: "A".."Z" (65..90) map to "a".."z"
LowerChar(c) == IF c >= 65 /\ c <= 90 THEN c + 32 ELSE c
Lower(s) == [i \in DOMAIN s |-> LowerChar(s[i])]

\* p in t, for strs
IsSubstring(p, t) ==
    \E i \in 0..(Len(t) - Len(p)) : SubSeq(t, i + 1, i + Len(p)) = p

\* s < t for strs: code-point lexicographic order
StrLess(s, t) ==
    \/ /\ Len(s) < Len(t)
       /\ SubSeq(t, 1, Len(s)) = s
    \/ \E i \in 1..Len(s) :
          /\ i <= Len(t)
          /\ SubSeq(s, 1, i - 1) = SubSeq(t, 1, i - 1)
          /\ s[i] < t[i]

\* sorted(list(S)) for a set S of strs
RECURSIVE sorted(_)
sorted(S) ==
    IF S = {} THEN <<>>
    ELSE LET m == CHOOSE x \in S : \A y \in S \ {x} : StrLess(x, y)
         IN  <<m>> \o sorted(S \ {m})

\* " ".join(parts)
RECURSIVE join(_)
join(parts) ==
    IF Len(parts) = 0 THEN <<>>
    ELSE IF Len(parts) = 1 THEN parts[1]
    ELSE parts[1] \o <<32>> \o join(Tail(parts))

\* hashlib.sha256(key.encode("utf-8")).hexdigest(): SHA-256 taken as
\* collision-free, so the digest stands for the key it was computed from
sha256_hexdigest(key) == [sha256 |-> key]

Ellipsis == <<46, 46, 46>>     \* "..."
SummaryLen == 300

-----------------------------------------------------------------------------
(* util.py *)

TypeError == [raised |-> "TypeError"]

\* line 79: a.get("title") or a.get("headline") or ""
norm_title(rec) == Or(Or(Get(rec, "title"), Get(rec, "headline")), <<>>)

\* line 80: a.get("description") or ""
\* (norm_description_nodefault: the same without the or "")
norm_description_nodefault(rec) == Get(rec, "description")
norm_description(rec) == Or(Get(rec, "description"), <<>>)

\* line 81: a.get("content") or a.get("snippet") or out["description"]
norm_content(rec, description) ==
    Or(Or(Get(rec, "content"), Get(rec, "snippet")), description)

\* line 82: a.get("url") or a.get("link") or ""
norm_source_url(rec) == Or(Or(Get(rec, "url"), Get(rec, "link")), <<>>)

\* line 83: a.get("published") or a.get("publishedAt") or utcnow().isoformat()
norm_published(rec, now) ==
    Or(Or(Get(rec, "published"), Get(rec, "publishedAt")), now)

\* line 84: a.get("source") or source or ""
norm_source(rec, src) == Or(Or(Get(rec, "source"), src), <<>>)

\* line 85: the summary; slicing None raises TypeError
norm_summary(description, content) ==
    IF Truthy(description)
    THEN Slice(description, SummaryLen) \o Ellipsis
    ELSE Slice(content, SummaryLen) \o Ellipsis

\* lines 87-88: the id, from the title and the source_url already in out
\* (norm_id_with_source: a key that takes in the source as well)
norm_id_with_source(o) ==
    sha256_hexdigest(Or(o.title, <<>>) \o Or(o.source_url, <<>>) \o o.source)
norm_id(o) == sha256_hexdigest(Or(o.title, <<>>) \o Or(o.source_url, <<>>))

\* normalize_article(a, source), with now = datetime.utcnow().isoformat()
normalize_article(rec, src, now) ==
    LET description == norm_description(rec)
        content == norm_content(rec, description)
    IN  IF ~Truthy(description) /\ ~IsStr(content)
        THEN TypeError
        ELSE LET o == [title |-> norm_title(rec),
                       description |-> description,
                       content |-> content,
                       source_url |-> norm_source_url(rec),
                       published |-> norm_published(rec, now),
                       source |-> norm_source(rec, src),
                       summary |-> norm_summary(description, content)]
             IN  o @@ [id |-> norm_id(o)]

\* len(d.get("content", "") or "")
content_len(d) == Len(Or(GetDefault(d, "content", <<>>), <<>>))

\* seen is the dict of dedupe_articles, in insertion order: a sequence of
\* [key, val] entries with distinct keys
seen_index(seen, key) == {i \in DOMAIN seen : seen[i].key = key}

\* the comparison of line 106
\* (replaces_or_equal: the same with >=, the last of equal length winning)
replaces_or_equal(new_content_len, existing_content_len) ==
    new_content_len >= existing_content_len
replaces(new_content_len, existing_content_len) ==
    new_content_len > existing_content_len

\* one iteration of the loop of dedupe_articles
dedupe_step(seen, rec, now) ==
    LET norm == normalize_article(rec, Get(rec, "source"), now)
        key == norm.id
        at == seen_index(seen, key)
    IN  IF at = {}
        THEN Append(seen, [key |-> key, val |-> norm])
        ELSE LET i == CHOOSE j \in at : TRUE
             IN  IF replaces(content_len(norm), content_len(seen[i].val))
                 THEN [seen EXCEPT ![i] = [key |-> key, val |-> norm]]
                 ELSE seen

RECURSIVE dedupe_loop(_, _, _)
dedupe_loop(seen, recs, now) ==
    IF recs = <<>> THEN seen
    ELSE dedupe_loop(dedupe_step(seen, Head(recs), now), Tail(recs), now)

\* dedupe_articles(articles): list(seen.values())
dedupe_articles(recs, now) ==
    LET seen == dedupe_loop(<<>>, recs, now)
    IN  [i \in DOMAIN seen |-> seen[i].val]

\* line 118: mf.lower() in text
\* (mentions_case_sensitive: the same without the lower())
mentions_case_sensitive(mf, text) == IsSubstring(mf, text)
mentions(mf, text) == IsSubstring(Lower(mf), text)

\* the text detect_mutual_fund_mentions searches
mention_text(art) ==
    Lower(join(<<GetDefault(art, "title", <<>>),
                 GetDefault(art, "description", <<>>),
                 GetDefault(art, "content", <<>>)>>))

\* the loop of detect_mutual_fund_mentions: found, with repetitions
RECURSIVE found_list(_, _)
found_list(mfs, text) ==
    IF mfs = <<>> THEN <<>>
    ELSE (IF mentions(Head(mfs), text) THEN <<Head(mfs)>> ELSE <<>>)
         \o found_list(Tail(mfs), text)

\* detect_mutual_fund_mentions(article, mf_list)
detect_mutual_fund_mentions(art, mfs) ==
    sorted(Range(found_list(mfs, mention_text(art))))

-----------------------------------------------------------------------------
(* app.py *)

\* s.split(sep), sep one character
RECURSIVE split(_, _)
split(s, sep) ==
    IF \A i \in DOMAIN s : s[i] # sep THEN <<s>>
    ELSE LET i == CHOOSE k \in DOMAIN s :
                     s[k] = sep /\ \A j \in 1..(k - 1) : s[j] # sep
         IN  <<SubSeq(s, 1, i - 1)>> \o split(SubSeq(s, i + 1, Len(s)), sep)

\* s.strip(), the white space being " "
RECURSIVE strip(_)
strip(s) ==
    IF s = <<>> THEN s
    ELSE IF Head(s) = 32 THEN strip(Tail(s))
    ELSE IF s[Len(s)] = 32 THEN strip(SubSeq(s, 1, Len(s) - 1))
    ELSE s

\* line 43: [m.strip() for m in mf_list_input.split(",") if m.strip()]
RECURSIVE stripped_nonempty(_)
stripped_nonempty(parts) ==
    IF parts = <<>> THEN <<>>
    ELSE (IF strip(Head(parts)) # <<>> THEN <<strip(Head(parts))>> ELSE <<>>)
         \o stripped_nonempty(Tail(parts))
parse_mf_list(mf_list_input) == stripped_nonempty(split(mf_list_input, 44))

\* lines 62-63 and 73-74: normalize, then attach the detected firms
annotated(rec, label, mfs, now) ==
    LET a_norm == normalize_article(rec, label, now)
    IN  a_norm @@ [source_detected_mf |-> detect_mutual_fund_mentions(a_norm, mfs)]

\* the loops of lines 61-64 and 72-75
RECURSIVE annotated_all(_, _, _, _)
annotated_all(recs, label, mfs, now) ==
    IF recs = <<>> THEN <<>>
    ELSE <<annotated(Head(recs), label, mfs, now)>>
         \o annotated_all(Tail(recs), label, mfs, now)

\* pd.to_datetime(s, errors="coerce"); the model writes a time stamp as a
\* decimal numeral, and NaT is what anything else parses to
NaT == -1
RECURSIVE to_number(_, _)
to_number(s, acc) ==
    IF s = <<>> THEN acc
    ELSE to_number(Tail(s), 10 * acc + (Head(s) - 48))
to_datetime(s) ==
    IF s # <<>> /\ \A i \in DOMAIN s : s[i] >= 48 /\ s[i] <= 57
    THEN to_number(s, 0)
    ELSE NaT

\* line 86: the published column parsed
parsed_rows(rows) ==
    [i \in DOMAIN rows |-> [rows[i] EXCEPT !["published"] = to_datetime(@)]]

\* line 87: df.sort_values("published", ascending=False), NaT last; the
\* order among equal time stamps is the sort's to choose
sorted_by_published(rows) ==
    \A i, j \in DOMAIN rows :
        i < j =>
            \/ rows[j].published = NaT
            \/ (rows[i].published # NaT /\ rows[i].published >= rows[j].published)
sort_values(rows) ==
    {sorted_rows \in {[i \in DOMAIN rows |-> rows[p[i]]] :
                        p \in Permutations(DOMAIN rows)} :
        sorted_by_published(sorted_rows)}

\* lines 83-88: a pass with no article leaves the session as it was, any
\* other stores its table
\* (stored_and_flag_reset: a script that puts the fetch flag down again)
stored_and_flag_reset(ss, df) ==
    IF df = <<>> THEN ss ELSE [fetch |-> FALSE, df |-> df]
stored(ss, df) ==
    IF df = <<>> THEN ss ELSE [fetch |-> ss.fetch, df |-> df]

\* line 101 reads df["source_detected_mf"]: a DataFrame built from dicts has
\* a column for each key of some row
has_column(df, column) == \E i \in DOMAIN df : column \in DOMAIN df[i]

-----------------------------------------------------------------------------
(* The variables of the parts a specification does not run *)

NoApp ==
    /\ session_state = <<>> /\ button = FALSE
    /\ newsapi_key = <<>> /\ n_articles = <<>> /\ g_articles = <<>>
    /\ all_articles = <<>> /\ combined = <<>> /\ reports = <<>>
    /\ view = "none" /\ clicked = FALSE
NoNormalize ==
    /\ a = Pending /\ source = Pending /\ utcnow = Pending /\ out = Pending
    /\ again = Pending /\ a2 = Pending /\ source2 = Pending /\ out2 = Pending
NoDedupe == articles = Pending /\ result = Pending
NoDetect == article = Pending /\ found = Pending

\* what datetime.utcnow().isoformat() may return
Clock == {<<56>>, <<57>>}

\* line 83 reads the clock only when the record has no published time
ClockReads(rec) ==
    IF Truthy(Or(Get(rec, "published"), Get(rec, "publishedAt")))
    THEN {Pending}
    ELSE Clock

-----------------------------------------------------------------------------
(* SpecNormalize: normalize_article on every shape of raw record, and on   *)
(* its own output as dedupe_articles calls it (line 97)                    *)

\* absent, null, empty or present
Shapes(s) == {Absent, None, <<>>, s}

RawRecords ==
    {Dict([title |-> t, headline |-> h, description |-> d, content |-> c,
           snippet |-> sn, url |-> u, link |-> l, published |-> p,
           publishedAt |-> pa, source |-> so]) :
        t \in Shapes(<<116>>), h \in Shapes(<<104>>), d \in Shapes(<<100>>),
        c \in Shapes(<<99, 99>>), sn \in Shapes(<<115>>),
        u \in Shapes(<<117>>), l \in Shapes(<<108>>),
        p \in {Absent, <<49>>}, pa \in {Absent, <<50>>},
        so \in {Absent, <<111>>}}

\* the default source label: None (the parameter's default) or "N"
Labels == {None, <<78>>}

InitNormalize ==
    /\ pc = "raw"
    /\ a \in RawRecords /\ source \in Labels
    /\ utcnow = Pending /\ out = Pending /\ again = Pending
    /\ a2 = Pending /\ source2 = Pending /\ out2 = Pending
    /\ mf_list = Pending
    /\ NoApp /\ NoDedupe /\ NoDetect

\* out = normalize_article(a, source)
Normalize ==
    /\ pc = "raw"
    /\ \E now \in ClockReads(a) :
          /\ utcnow' = now
          /\ out' = normalize_article(a, source, now)
    /\ pc' = "normalized"
    /\ UNCHANGED <<a, source, again, a2, source2, out2>>
    /\ UNCHANGED <<appState, mf_list, dedupeVars, detectVars>>

\* line 97 on an Article: norm = normalize_article(a, source=a.get("source"))
Renormalize ==
    /\ pc = "normalized" /\ out # TypeError
    /\ \E now \in ClockReads(out) :
          /\ utcnow' = now
          /\ again' = normalize_article(out, Get(out, "source"), now)
    /\ pc' = "renormalized"
    /\ UNCHANGED <<a, source, out, a2, source2, out2>>
    /\ UNCHANGED <<appState, mf_list, dedupeVars, detectVars>>

NextNormalize == Normalize \/ Renormalize

SpecNormalize == InitNormalize /\ [][NextNormalize]_vars

\* the keys of an Article (lines 79-88)
ArticleKeys == {"title", "description", "content", "source_url", "published",
                "source", "summary", "id"}

\* every key of ks is absent from rec, null or empty
Missing(rec, ks) == \A k \in ks : k \notin DOMAIN rec \/ ~Truthy(rec[k])

\* C1: normalizing an already-normalized Article yields the same id, title,
\* source_url and content as the Article has.
Cex_C1_Idempotent ==
    pc = "renormalized" =>
        /\ again.id = out.id
        /\ again.title = out.title
        /\ again.source_url = out.source_url
        /\ again.content = out.content

\* C8: normalize_article raises no error on any shape of raw record and
\* returns one Article, all of whose title, description and source_url are
\* strs, the empty str where the raw record has none.
Thm_C8_Total ==
    pc = "normalized" =>
        /\ out # TypeError
        /\ DOMAIN out = ArticleKeys
        /\ \A k \in {"title", "description", "source_url"} : IsStr(out[k])
        /\ Missing(a, {"title", "headline"}) => out.title = <<>>
        /\ Missing(a, {"description"}) => out.description = <<>>
        /\ Missing(a, {"url", "link"}) => out.source_url = <<>>

\* a raw record with no field at all was normalized to empty strs
Wit_C8_Total ==
    /\ pc = "normalized"
    /\ DOMAIN a = {}
    /\ out # TypeError
    /\ out.title = <<>> /\ out.description = <<>> /\ out.source_url = <<>>

-----------------------------------------------------------------------------
(* SpecDeterminism: two raw records that normalize to the same title and   *)
(* the same source_url                                                     *)

PairRecords ==
    {Dict([title |-> t, headline |-> h, description |-> d, content |-> c,
           url |-> u, link |-> l, published |-> p, source |-> so]) :
        t \in {Absent, <<116>>}, h \in {Absent, <<104>>},
        d \in {Absent, <<100>>}, c \in {Absent, <<99, 99>>},
        u \in {Absent, <<117>>}, l \in {Absent, <<108>>},
        p \in {Absent, <<49>>}, so \in {Absent, <<111>>}}

InitDeterminism ==
    /\ pc = "raw"
    /\ a \in PairRecords /\ source \in Labels
    /\ utcnow = Pending /\ out = Pending /\ again = Pending
    /\ a2 = Pending /\ source2 = Pending /\ out2 = Pending
    /\ mf_list = Pending
    /\ NoApp /\ NoDedupe /\ NoDetect

\* out2 = normalize_article(a2, source2), for a record a2 with the title and
\* the source_url of a
NormalizeOther ==
    /\ pc = "normalized"
    /\ \E r \in PairRecords, label \in Labels :
       \E now \in ClockReads(r) :
          /\ norm_title(r) = norm_title(a)
          /\ norm_source_url(r) = norm_source_url(a)
          /\ a2' = r
          /\ source2' = label
          /\ out2' = normalize_article(r, label, now)
    /\ pc' = "compared"
    /\ UNCHANGED <<a, source, utcnow, out, again>>
    /\ UNCHANGED <<appState, mf_list, dedupeVars, detectVars>>

NextDeterminism == Normalize \/ NormalizeOther

SpecDeterminism == InitDeterminism /\ [][NextDeterminism]_vars

\* C6: two raw records with the same title and the same source_url get the
\* same id, whatever their other fields and default source labels are.
Thm_C6_IdOfTitleAndUrl ==
    pc = "compared" =>
        (out.title = out2.title /\ out.source_url = out2.source_url
            => out.id = out2.id)

\* two records differing in description, content, published and source
\* were given one id
Wit_C6_IdOfTitleAndUrl ==
    /\ pc = "compared"
    /\ out.description # out2.description
    /\ out.content # out2.content
    /\ out.published # out2.published
    /\ out.source # out2.source
    /\ source # source2
    /\ out.title = <<116>>
    /\ out.id = out2.id

-----------------------------------------------------------------------------
(* SpecDedupe: dedupe_articles on batches of raw records and of Articles   *)

MaxBatch == 3

\* the sequences over S of length at most n
SeqsUpTo(S, n) == UNION {[1..k -> S] : k \in 0..n}

\* raw records: one title, with or without a url, contents of length 0, 1,
\* 1 and 2
BatchRaw ==
    {Dict([title |-> <<116>>, url |-> u, content |-> c, published |-> <<49>>]) :
        u \in {Absent, <<117>>},
        c \in {Absent, <<99>>, <<100>>, <<99, 99>>}}

\* the Articles the Normalizer makes of them
BatchArticles == {normalize_article(r, <<78>>, <<57>>) : r \in BatchRaw}

InitDedupe ==
    /\ pc = "batch"
    /\ articles \in SeqsUpTo(BatchRaw \cup BatchArticles, MaxBatch)
    /\ result = Pending
    /\ mf_list = Pending
    /\ NoApp /\ NoNormalize /\ NoDetect

\* result = dedupe_articles(articles)
Dedupe ==
    /\ pc = "batch"
    /\ \E now \in Clock : result' = dedupe_articles(articles, now)
    /\ pc' = "deduped"
    /\ UNCHANGED <<articles, appState, mf_list, normVars, detectVars>>

NextDedupe == Dedupe

SpecDedupe == InitDedupe /\ [][NextDedupe]_vars

\* C2: of a batch of already-normalized Articles, the result holds exactly
\* one Article for each id present in the batch and no other Article.
Cex_C2_OnePerInputId ==
    (pc = "deduped" /\ \A i \in DOMAIN articles : "id" \in DOMAIN articles[i]) =>
        LET ids == {articles[i].id : i \in DOMAIN articles}
        IN  /\ {result[j].id : j \in DOMAIN result} = ids
            /\ Len(result) = Cardinality(ids)

\* the id dedupe_articles gives a record (lines 97-98); no record of a batch
\* lacks published, so the clock does not enter
KeyOf(rec) == normalize_article(rec, Get(rec, "source"), <<57>>).id
NormOf(rec) == normalize_article(rec, Get(rec, "source"), <<57>>)

\* the first record, in input order, of greatest content length among the
\* records of the batch that dedupe_articles gives the id k
FirstLongest(k) ==
    LET group == {i \in DOMAIN articles : KeyOf(articles[i]) = k}
        longest == {i \in group :
                       \A j \in group :
                           Len(NormOf(articles[j]).content)
                               <= Len(NormOf(articles[i]).content)}
    IN  CHOOSE i \in longest : \A j \in longest : i <= j

-----------------------------------------------------------------------------
(* SpecDetect: detect_mutual_fund_mentions on Articles and firm lists      *)

MaxFirms == 3

\* "", "a", "B", "Ab"
Texts == {<<>>, <<97>>, <<66>>, <<65, 98>>}

\* "A", "a", "ab", "ba", "a b"
Firms == {<<65>>, <<97>>, <<97, 98>>, <<98, 97>>, <<97, 32, 98>>}

DetectArticles ==
    {Dict([title |-> t, description |-> d, content |-> c]) :
        t \in Texts \cup {Absent}, d \in Texts, c \in Texts}

InitDetect ==
    /\ pc = "article"
    /\ article \in DetectArticles
    /\ mf_list \in SeqsUpTo(Firms, MaxFirms)
    /\ found = Pending
    /\ NoApp /\ NoNormalize /\ NoDedupe

\* found = detect_mutual_fund_mentions(article, mf_list)
Detect ==
    /\ pc = "article"
    /\ found' = detect_mutual_fund_mentions(article, mf_list)
    /\ pc' = "detected"
    /\ UNCHANGED <<article, mf_list, appState, normVars, dedupeVars>>

NextDetect == Detect

SpecDetect == InitDetect /\ [][NextDetect]_vars

\* the lists that are mfs permuted, and mfs with one entry repeated
Rearranged(mfs) ==
    {[i \in DOMAIN mfs |-> mfs[p[i]]] : p \in Permutations(DOMAIN mfs)}
        \cup {Append(mfs, mfs[i]) : i \in DOMAIN mfs}

\* C5: the result lists, without repetition and in lexicographic order,
\* exactly the candidates whose lowercased form occurs in the lowercased
\* title, description and content joined by spaces; every permutation of
\* the candidate list, and every repetition in it, gives the same result.
Thm_C5_Mentions ==
    pc = "detected" =>
        LET field(k) == IF k \in DOMAIN article THEN article[k] ELSE <<>>
            text == Lower(field("title") \o <<32>> \o field("description")
                              \o <<32>> \o field("content"))
            matched == {mf \in Range(mf_list) : IsSubstring(Lower(mf), text)}
        IN  /\ Range(found) = matched
            /\ \A i, j \in DOMAIN found : i < j => StrLess(found[i], found[j])
            /\ \A mfs \in Rearranged(mf_list) :
                  detect_mutual_fund_mentions(article, mfs) = found

\* "A" and "a" both match "Ab" whatever their case, given as a, A, a; the
\* result is A, a
Wit_C5_Mentions ==
    /\ pc = "detected"
    /\ mf_list = <<(<<97>>), (<<65>>), (<<97>>)>>
    /\ GetDefault(article, "title", <<>>) = <<65, 98>>
    /\ found = <<(<<65>>), (<<97>>)>>

-----------------------------------------------------------------------------
(* Spec: a Streamlit session running app.py, one run per interaction       *)

MaxFetch == 2

\* what a fetcher may return: title "t" or "x", url "u" or "v"
FeedRecords ==
    {[title |-> <<116>>, description |-> <<>>, content |-> <<99>>,
      url |-> <<117>>, published |-> <<49>>, source |-> None],
     [title |-> <<116>>, description |-> <<100>>, content |-> <<99, 99>>,
      url |-> <<118>>, published |-> <<50>>, source |-> None],
     [title |-> <<120>>, description |-> None, content |-> None,
      url |-> <<117>>, published |-> <<50>>, source |-> <<111>>]}

\* the sidebar's firm list: "C, t" and ",x"
MfInputs == {<<67, 44, 32, 116>>, <<44, 120>>}

\* the sidebar's NewsAPI key: "" and "k"
KeyInputs == {<<>>, <<107>>}

Init ==
    /\ pc = "idle"
    /\ session_state = <<>>
    /\ button = FALSE
    /\ newsapi_key = <<>>
    /\ mf_list = <<>>
    /\ n_articles = <<>> /\ g_articles = <<>>
    /\ all_articles = <<>> /\ combined = <<>>
    /\ reports = <<>>
    /\ view = "none"
    /\ clicked = FALSE
    /\ NoNormalize /\ NoDedupe /\ NoDetect

otherVars == <<normVars, dedupeVars, detectVars>>

\* lines 24-52: a run of the script starts; the sidebar is read, the button
\* sets the fetch flag, which is created FALSE when the session has none
Rerun ==
    /\ pc = "idle"
    /\ \E b \in BOOLEAN, key \in KeyInputs, mf_list_input \in MfInputs :
          LET fetch == IF b THEN TRUE
                       ELSE IF "fetch" \in DOMAIN session_state
                            THEN session_state.fetch
                            ELSE FALSE
          IN  /\ button' = b
              /\ newsapi_key' = key
              /\ mf_list' = parse_mf_list(mf_list_input)
              /\ session_state' = [fetch |-> fetch] @@ session_state
              /\ clicked' = (clicked \/ b)
              /\ pc' = IF fetch THEN "newsapi" ELSE "display"
    /\ n_articles' = <<>> /\ g_articles' = <<>>
    /\ all_articles' = <<>> /\ combined' = <<>>
    /\ reports' = <<>>
    /\ view' = "none"
    /\ UNCHANGED otherVars

\* line 58: no key, NewsAPI is not asked
NewsAPISkipped ==
    /\ pc = "newsapi"
    /\ ~Truthy(newsapi_key)
    /\ pc' = "google"
    /\ UNCHANGED <<session_state, button, newsapi_key, mf_list, n_articles,
                   g_articles, all_articles, combined, reports, view, clicked>>
    /\ UNCHANGED otherVars

\* lines 59-65: fetch_newsapi_articles returns
NewsAPIFetched ==
    /\ pc = "newsapi"
    /\ Truthy(newsapi_key)
    /\ \E recs \in SeqsUpTo(FeedRecords, MaxFetch), now \in Clock :
          /\ n_articles' = recs
          /\ all_articles' =
                 all_articles \o annotated_all(recs, <<78>>, mf_list, now)
    /\ reports' = [NewsAPI |-> "success"] @@ reports
    /\ pc' = "google"
    /\ UNCHANGED <<session_state, button, newsapi_key, mf_list, g_articles,
                   combined, view, clicked>>
    /\ UNCHANGED otherVars

\* lines 59-60 and 66-67: fetch_newsapi_articles raises
\* (NewsAPIFailed_aborts: a handler that gives the pass up)
NewsAPIFailed_aborts ==
    /\ pc = "newsapi"
    /\ Truthy(newsapi_key)
    /\ reports' = [NewsAPI |-> "error"] @@ reports
    /\ pc' = "display"
    /\ UNCHANGED <<session_state, button, newsapi_key, mf_list, n_articles,
                   g_articles, all_articles, combined, view, clicked>>
    /\ UNCHANGED otherVars
NewsAPIFailed ==
    /\ pc = "newsapi"
    /\ Truthy(newsapi_key)
    /\ reports' = [NewsAPI |-> "error"] @@ reports
    /\ pc' = "google"
    /\ UNCHANGED <<session_state, button, newsapi_key, mf_list, n_articles,
                   g_articles, all_articles, combined, view, clicked>>
    /\ UNCHANGED otherVars

\* lines 70-76: fetch_google_news_rss returns
GoogleFetched ==
    /\ pc = "google"
    /\ \E recs \in SeqsUpTo(FeedRecords, MaxFetch), now \in Clock :
          /\ g_articles' = recs
          /\ all_articles' =
                 all_articles \o annotated_all(recs, <<71>>, mf_list, now)
    /\ reports' = [GoogleNewsRSS |-> "success"] @@ reports
    /\ pc' = "aggregate"
    /\ UNCHANGED <<session_state, button, newsapi_key, mf_list, n_articles,
                   combined, view, clicked>>
    /\ UNCHANGED otherVars

\* lines 70-71 and 77-78: fetch_google_news_rss raises
GoogleFailed ==
    /\ pc = "google"
    /\ reports' = [GoogleNewsRSS |-> "error"] @@ reports
    /\ pc' = "aggregate"
    /\ UNCHANGED <<session_state, button, newsapi_key, mf_list, n_articles,
                   g_articles, all_articles, combined, view, clicked>>
    /\ UNCHANGED otherVars

\* lines 80-89: dedupe, parse and sort by published, store
Aggregate ==
    /\ pc = "aggregate"
    /\ \E now \in Clock :
          /\ combined' = dedupe_articles(all_articles, now)
          /\ \E df \in sort_values(parsed_rows(combined')) :
                session_state' = stored(session_state, df)
    /\ pc' = "display"
    /\ UNCHANGED <<button, newsapi_key, mf_list, n_articles, g_articles,
                   all_articles, reports, view, clicked>>
    /\ UNCHANGED otherVars

\* lines 91-148: the stored table is shown, which starts by reading its
\* source_detected_mf column (line 101); with no table, the hint of line 148
Display ==
    /\ pc = "display"
    /\ view' = IF "df" \in DOMAIN session_state /\ session_state.df # <<>>
               THEN IF has_column(session_state.df, "source_detected_mf")
                    THEN "table"
                    ELSE "KeyError"
               ELSE "info"
    /\ pc' = "idle"
    /\ UNCHANGED <<session_state, button, newsapi_key, mf_list, n_articles,
                   g_articles, all_articles, combined, reports, clicked>>
    /\ UNCHANGED otherVars

Next ==
    \/ Rerun
    \/ NewsAPISkipped
    \/ NewsAPIFetched
    \/ NewsAPIFailed
    \/ GoogleFetched
    \/ GoogleFailed
    \/ Aggregate
    \/ Display

Spec == Init /\ [][Next]_vars

\* what a source contributes to all_articles: its records, normalized and
\* annotated, when its fetch returned, and nothing otherwise
Contribution(src, recs, label) ==
    IF src \in DOMAIN reports /\ reports[src] = "success"
    THEN annotated_all(recs, label, mf_list, <<57>>)
    ELSE <<>>

\* C4: every Article of the table a fetch pass stores for the display
\* carries source_detected_mf, the detector's result for it.
Cex_C4_Annotated ==
    (pc = "display" /\ "df" \in DOMAIN session_state) =>
        \A i \in DOMAIN session_state.df :
            /\ "source_detected_mf" \in DOMAIN session_state.df[i]
            /\ session_state.df[i].source_detected_mf
                   = detect_mutual_fund_mentions(session_state.df[i], mf_list)

\* C7: when a fetch pass reaches the display, both sources were asked (the
\* NewsAPI when a key is given), a source whose fetch failed contributed
\* nothing, every record the other returned was normalized into
\* all_articles, and all_articles went through dedupe_articles.
Thm_C7_PartialFailure ==
    (pc = "display" /\ session_state.fetch) =>
        /\ "GoogleNewsRSS" \in DOMAIN reports
        /\ Truthy(newsapi_key) => "NewsAPI" \in DOMAIN reports
        /\ all_articles = Contribution("NewsAPI", n_articles, <<78>>)
                             \o Contribution("GoogleNewsRSS", g_articles, <<71>>)
        /\ combined = dedupe_articles(all_articles, <<57>>)

\* the NewsAPI failed and the articles of Google News were aggregated
Wit_C7_PartialFailure ==
    /\ pc = "display"
    /\ "NewsAPI" \in DOMAIN reports /\ reports["NewsAPI"] = "error"
    /\ "GoogleNewsRSS" \in DOMAIN reports /\ reports["GoogleNewsRSS"] = "success"
    /\ g_articles # <<>>
    /\ Len(all_articles) = Len(g_articles)
    /\ combined # <<>>

\* C9: after a fetch pass, the table held in the session is that of this
\* pass, and empty when this pass produced no article.
Cex_C9_ClearedEachPass ==
    (pc = "display" /\ "GoogleNewsRSS" \in DOMAIN reports) =>
        LET shown == IF "df" \in DOMAIN session_state
                     THEN session_state.df
                     ELSE <<>>
        IN  Range(shown) = Range(parsed_rows(combined))

\* C10: once the button was clicked, the fetch flag is true in every later
\* state and every run of the script that reaches the display has made a
\* fetch pass.
Thm_C10_FlagStays ==
    clicked =>
        /\ session_state.fetch = TRUE
        /\ pc = "display" => "GoogleNewsRSS" \in DOMAIN reports

\* a run in which the button was not clicked made a fetch pass
Wit_C10_FlagStays ==
    /\ clicked /\ ~button
    /\ pc = "display"
    /\ "GoogleNewsRSS" \in DOMAIN reports
    /\ session_state.fetch = TRUE

====
